---- MODULE Spec2Model ----
(***************************************************************************)
(* URL-shortening service (src/app.py): the base-62 Encoder, the SQLite    *)
(* backed URLRepository and the three Flask handlers, as a state machine   *)
(* of request-handling processes that each work on a connection of their   *)
(* own.                                                                    *)
(*                                                                         *)
(* Python integers are unbounded; TLC's are 32 bit.  An integer is         *)
(* therefore kept as two limbs <<hi, lo>> of value hi * PyLong_BASE + lo   *)
(* with 0 <= lo < PyLong_BASE and hi signed, and divmod is the long        *)
(* division over the limbs.  A string is the sequence of its characters.   *)
(***************************************************************************)
EXTENDS Integers, Sequences, FiniteSets, TLC

\* ------------------------------------------------------------- bounds
NumProcs == 2
MaxOps == 2
MaxEncodeArg == 130

\* ------------------------------------------------- integers (two limbs)
PyLong_BASE == 32768

Long(n) == <<n \div PyLong_BASE, n % PyLong_BASE>>

LongZero == <<0, 0>>

IsPositive(x) == x[1] > 0 \/ (x[1] = 0 /\ x[2] > 0)

LongLt(a, b) == a[1] < b[1] \/ (a[1] = b[1] /\ a[2] < b[2])

LongLe(a, b) == a = b \/ LongLt(a, b)

LongSucc(x) == IF x[2] + 1 = PyLong_BASE THEN <<x[1] + 1, 0>> ELSE <<x[1], x[2] + 1>>

\* divmod(number, base) of line 19: floor division, 0 <= r < d.
divmod(x, d) ==
    LET cur == (x[1] % d) * PyLong_BASE + x[2]
    IN  [q |-> <<x[1] \div d, cur \div d>>, r |-> cur % d]

\* ------------------------------------------------------------ Encoder
BASE62_ALPHABET ==
    << "0", "1", "2", "3", "4", "5", "6", "7", "8", "9",
       "a", "b", "c", "d", "e", "f", "g", "h", "i", "j", "k", "l", "m",
       "n", "o", "p", "q", "r", "s", "t", "u", "v", "w", "x", "y", "z",
       "A", "B", "C", "D", "E", "F", "G", "H", "I", "J", "K", "L", "M",
       "N", "O", "P", "Q", "R", "S", "T", "U", "V", "W", "X", "Y", "Z" >>

reversed(s) == [i \in 1..Len(s) |-> s[Len(s) + 1 - i]]

\* The while loop of lines 18-20.
RECURSIVE EncodeLoop(_, _)
EncodeLoop(number, encoded) ==
    IF number = LongZero
    THEN encoded
    ELSE LET dm == divmod(number, Len(BASE62_ALPHABET))
         IN  EncodeLoop(dm.q, Append(encoded, BASE62_ALPHABET[dm.r + 1]))

\* The encoder without the reversal of line 21.
encode_base62_unreversed(number) ==
    IF ~IsPositive(number)
    THEN [exc |-> "ValueError", value |-> <<>>]
    ELSE [exc |-> "None", value |-> EncodeLoop(number, <<>>)]

\* The encoder with the guard of line 14 written "number < 0".
encode_base62_zero_accepted(number) ==
    IF number[1] < 0
    THEN [exc |-> "ValueError", value |-> <<>>]
    ELSE [exc |-> "None", value |-> reversed(EncodeLoop(number, <<>>))]

\* encode_base62: the outcome is the exception raised ("None" when it
\* returns) and the value returned.
encode_base62(number) ==
    IF ~IsPositive(number)
    THEN [exc |-> "ValueError", value |-> <<>>]
    ELSE [exc |-> "None", value |-> reversed(EncodeLoop(number, <<>>))]

\* ----------------------------------------------------- inputs and data
Procs == 1..NumProcs

NoProc == 0

\* Characters of the words used as paths and look-up keys.
HealthPath == <<"h", "e", "a", "l", "t", "h">>

ShortenPath == <<"s", "h", "o", "r", "t", "e", "n">>

RootPath == <<>>

Digits == <<"0", "1", "2", "3", "4", "5", "6", "7", "8", "9">>

Lower == <<"a", "b", "c", "d", "e", "f", "g", "h", "i", "j", "k", "l", "m",
           "n", "o", "p", "q", "r", "s", "t", "u", "v", "w", "x", "y", "z">>

Upper == <<"A", "B", "C", "D", "E", "F", "G", "H", "I", "J", "K", "L", "M",
           "N", "O", "P", "Q", "R", "S", "T", "U", "V", "W", "X", "Y", "Z">>

Range(s) == {s[i] : i \in 1..Len(s)}

Base62Chars == Range(Digits) \cup Range(Lower) \cup Range(Upper)

\* An independent base-62 decoder (Horner's rule over the limbs), with its
\* own table of digit values: 0-9 are 0..9, a-z are 10..35, A-Z are 36..61.
DigitValue(c) ==
    IF c \in Range(Digits) THEN (CHOOSE i \in 1..10 : Digits[i] = c) - 1
    ELSE IF c \in Range(Lower) THEN (CHOOSE i \in 1..26 : Lower[i] = c) + 9
    ELSE (CHOOSE i \in 1..26 : Upper[i] = c) + 35

RECURSIVE DecodeFrom(_, _, _)
DecodeFrom(code, i, acc) ==
    IF i > Len(code)
    THEN acc
    ELSE LET lo == acc[2] * 62 + DigitValue(code[i])
         IN  DecodeFrom(code, i + 1,
                        <<acc[1] * 62 + (lo \div PyLong_BASE), lo % PyLong_BASE>>)

DecodeBase62(code) == DecodeFrom(code, 1, LongZero)

IsBase62(code) == Len(code) >= 1 /\ \A i \in 1..Len(code) : code[i] \in Base62Chars

LongPred(x) == IF x[2] = 0 THEN <<x[1] - 1, PyLong_BASE - 1>> ELSE <<x[1], x[2] - 1>>

\* The id whose code spells the path of the health route.
HealthId == DecodeBase62(HealthPath)

\* Numbers of records a database file may hold when the service starts: a
\* fresh file, and one about to issue the code "health".
PriorCounts == {Long(0), LongPred(HealthId)}

\* The URL of every record created before the run.
PriorUrl == "https://example.com"

\* The URL the clients of the class hand to create, and the one posted.
Urls == {"https://a.example"}

PostedUrl == "https://b.example"

\* JSON request bodies as request.get_json(silent=True) returns them.
JMember(t, v) == [type |-> t, v |-> v]

JAbsent == JMember("absent", "")

JValue(t, v, url) == [type |-> t, v |-> v, url |-> url]

JNone == JValue("none", "", JAbsent)

JObject(url) == JValue("object", "", url)

Bodies ==
    {JNone, JValue("array", "[1]", JAbsent)}
    \cup {JObject(m) : m \in {JAbsent, JMember("int", "123"), JMember("str", ""),
                              JMember("str", PostedUrl)}}

\* -------------------------------------------------------------- state
VARIABLES
    prior,      \* records 1..prior exist from earlier runs (a Long)
    urls,       \* the committed rows of table urls created in this run
    seq,        \* the committed AUTOINCREMENT counter (sqlite_sequence)
    writer,     \* the process whose connection holds the write lock
    txn,        \* each connection's open transaction: its rows and counter
    pc,         \* each process's position
    req,        \* the HTTP request a process is serving
    local,      \* the locals of the operation a process is running, with the
                \* ids returned before it began and, for a look-up, the
                \* process that held the write lock when it read
    resp,       \* what the operation returned, raised or answered
    returned,   \* the ShortURLs returned by completed creates, in order
    ops         \* operations started

vars == <<prior, urls, seq, writer, txn, pc, req, local, resp, returned, ops>>

NoTxn == [open |-> FALSE, urls |-> {}, seq |-> LongZero]

NoReq == [method |-> "", path |-> <<>>, body |-> JNone]

NoLocal ==
    [op |-> "none", via |-> "", number |-> LongZero, original_url |-> "",
     has_id |-> FALSE, url_id |-> LongZero, code |-> <<>>, before |-> {},
     during |-> NoProc]

\* A result: kind is "ShortURL", "None" (returned by the Repository), "str"
\* (returned by the Encoder), "raise" (an exception left the call), or
\* "json" and "redirect" (an HTTP response with its status).
Result(kind, status, id, url, code, short_url, body) ==
    [kind |-> kind, status |-> status, id |-> id, url |-> url, code |-> code,
     short_url |-> short_url, body |-> body]

NoResp == Result("none", 0, LongZero, "", <<>>, <<>>, "")

Raised(status, exc) == Result("raise", status, LongZero, "", <<>>, <<>>, exc)

ShortURL(id, original_url, code) == [id |-> id, original_url |-> original_url, code |-> code]

\* ------------------------------------------------------------ storage
\* The record with this code among those of earlier runs, which hold
\* encode_base62(id) for every id in 1..prior.
PriorRows(code) ==
    IF ~IsBase62(code) THEN {}
    ELSE LET id == DecodeBase62(code)
         IN  IF IsPositive(id) /\ LongLe(id, prior) /\ encode_base62(id).value = code
             THEN {ShortURL(id, PriorUrl, code)}
             ELSE {}

\* SELECT id, original_url, code FROM urls WHERE code = ? over the rows a
\* connection sees.
SelectByCode(rows, code) == {r \in rows : r.code = code} \cup PriorRows(code)

\* The rows a process's connection sees: its own transaction's, if it has
\* one open, and the committed ones otherwise.
View(p) == IF txn[p].open THEN txn[p].urls ELSE urls

BASE_URL == <<"http://localhost:5000">>

\* ------------------------------------------------------------- routing
\* The endpoint Flask's URL map gives a request for /<path>: a static rule
\* is matched before the converter rule /<code>, and a rule whose methods
\* do not include the request's is passed over.
Route(method, path) ==
    IF path = RootPath THEN "404"
    ELSE IF path = HealthPath /\ method = "GET" THEN "health"
    ELSE IF path = ShortenPath /\ method = "POST" THEN "shorten"
    ELSE IF method = "GET" THEN "redirect_to_url"
    ELSE "405"

Init ==
    /\ prior \in PriorCounts
    /\ urls = {}
    /\ seq = prior
    /\ writer = NoProc
    /\ txn = [p \in Procs |-> NoTxn]
    /\ pc = [p \in Procs |-> "idle"]
    /\ req = [p \in Procs |-> NoReq]
    /\ local = [p \in Procs |-> NoLocal]
    /\ resp = [p \in Procs |-> NoResp]
    /\ returned = <<>>
    /\ ops = 0

\* ------------------------------------------------------------- inputs
RECURSIVE LongAdd(_, _)
LongAdd(x, k) == IF k = 0 THEN x ELSE LongAdd(LongSucc(x), k - 1)

\* The codes the next two creates of the run are due.
NextCodes == {encode_base62(LongAdd(prior, k)).value : k \in 1..2}

FetchCodes == {<<>>} \cup NextCodes

GetPaths == {RootPath, HealthPath, ShortenPath} \cup NextCodes

EncodeArgs == {Long(n) : n \in {-5, 0}}

IdsReturned == {returned[i].id : i \in 1..Len(returned)}

CanStart(p) == pc[p] = "idle" /\ ops < MaxOps

\* ---------------------------------------------------- URLRepository
StartCreate(p, via, original_url) ==
    /\ pc' = [pc EXCEPT ![p] = "create_insert"]
    /\ local' = [local EXCEPT ![p] = [NoLocal EXCEPT !.op = "create", !.via = via,
                     !.original_url = original_url, !.before = IdsReturned]]
    /\ ops' = ops + 1
    /\ UNCHANGED <<prior, urls, seq, writer, txn, resp, returned>>

\* repository.create(original_url) called by a client of the class.
CallCreate(p, original_url) ==
    /\ CanStart(p)
    /\ StartCreate(p, "direct", original_url)
    /\ UNCHANGED req

\* An exit from the with block that commits whatever the transaction holds
\* before the exception goes on (a finally: connection.commit()).
RaiseInCreateCommits(p, exc) ==
    /\ urls' = IF txn[p].open THEN txn[p].urls ELSE urls
    /\ seq' = IF txn[p].open THEN txn[p].seq ELSE seq
    /\ txn' = [txn EXCEPT ![p] = NoTxn]
    /\ writer' = IF writer = p THEN NoProc ELSE writer
    /\ resp' = [resp EXCEPT ![p] =
                   Raised(IF local[p].via = "http" THEN 500 ELSE 0, exc)]
    /\ pc' = [pc EXCEPT ![p] = "done"]
    /\ UNCHANGED <<prior, req, local, returned, ops>>

\* An exception leaves the with block of create: Connection.__exit__ rolls
\* the transaction back and the exception reaches the caller (for a
\* request, Flask answers 500).  The write lock goes with the transaction.
RaiseInCreate(p, exc) ==
    /\ txn' = [txn EXCEPT ![p] = NoTxn]
    /\ writer' = IF writer = p THEN NoProc ELSE writer
    /\ resp' = [resp EXCEPT ![p] =
                   Raised(IF local[p].via = "http" THEN 500 ELSE 0, exc)]
    /\ pc' = [pc EXCEPT ![p] = "done"]
    /\ UNCHANGED <<prior, urls, seq, req, local, returned, ops>>

\* The INSERT on a connection in autocommit mode (isolation_level=None):
\* the row with the placeholder code is committed at once.
InsertAutocommit(p) ==
    /\ pc[p] = "create_insert"
    /\ writer = NoProc
    /\ LET id == LongSucc(seq)
           rows == urls \cup {ShortURL(id, local[p].original_url, <<>>)}
       IN  /\ urls' = rows
           /\ seq' = id
           /\ txn' = [txn EXCEPT ![p] = [open |-> TRUE, urls |-> rows, seq |-> id]]
           /\ writer' = p
           /\ local' = [local EXCEPT ![p].has_id = TRUE, ![p].url_id = id]
           /\ pc' = [pc EXCEPT ![p] = "create_update"]
           /\ UNCHANGED <<prior, req, resp, returned, ops>>

\* The INSERT with an id the service works out itself (counter + 1) without
\* the storage engine's write lock: two connections can take the same id.
InsertNoLock(p) ==
    /\ pc[p] = "create_insert"
    /\ LET id == LongSucc(seq)
       IN  /\ txn' = [txn EXCEPT ![p] =
                  [open |-> TRUE,
                   urls |-> urls \cup {ShortURL(id, local[p].original_url, <<>>)},
                   seq |-> id]]
           /\ writer' = p
           /\ local' = [local EXCEPT ![p].has_id = TRUE, ![p].url_id = id]
           /\ pc' = [pc EXCEPT ![p] = "create_update"]
           /\ UNCHANGED <<prior, urls, seq, req, resp, returned, ops>>

\* INSERT INTO urls (original_url, code) VALUES (?, ""): opens the
\* connection's transaction, takes the write lock (it waits while another
\* connection holds it), and AUTOINCREMENT assigns seq + 1.
Insert(p) ==
    /\ pc[p] = "create_insert"
    /\ writer = NoProc
    /\ IF SelectByCode(urls, <<>>) # {}
       THEN RaiseInCreate(p, "IntegrityError")
       ELSE LET id == LongSucc(seq)
            IN  /\ txn' = [txn EXCEPT ![p] =
                       [open |-> TRUE,
                        urls |-> urls \cup {ShortURL(id, local[p].original_url, <<>>)},
                        seq |-> id]]
                /\ writer' = p
                /\ local' = [local EXCEPT ![p].has_id = TRUE, ![p].url_id = id]
                /\ pc' = [pc EXCEPT ![p] = "create_update"]
                /\ UNCHANGED <<prior, urls, seq, req, resp, returned, ops>>

\* create without the UPDATE of lines 63-66: the row keeps the placeholder.
UpdateWithoutWrite(p) ==
    /\ pc[p] = "create_update"
    /\ local' = [local EXCEPT ![p].code = encode_base62(local[p].url_id).value]
    /\ pc' = [pc EXCEPT ![p] = "create_commit"]
    /\ UNCHANGED <<prior, urls, seq, writer, txn, req, resp, returned, ops>>

\* The UPDATE without its WHERE id = ? (on a table whose code is not
\* declared UNIQUE): every row takes the new code.
UpdateAllRows(p) ==
    /\ pc[p] = "create_update"
    /\ LET enc == encode_base62(local[p].url_id)
       IN  /\ txn' = [txn EXCEPT ![p].urls =
                  {[r EXCEPT !.code = enc.value] : r \in txn[p].urls}]
           /\ local' = [local EXCEPT ![p].code = enc.value]
           /\ pc' = [pc EXCEPT ![p] = "create_commit"]
           /\ UNCHANGED <<prior, urls, seq, writer, req, resp, returned, ops>>

\* Lines 59-66: the lastrowid check, the encoder, and
\* UPDATE urls SET code = ? WHERE id = ? inside the same transaction.
Update(p) ==
    /\ pc[p] = "create_update"
    /\ LET url_id == local[p].url_id
           enc == encode_base62(url_id)
       IN  IF ~local[p].has_id
           THEN RaiseInCreate(p, "RuntimeError")
           ELSE IF enc.exc # "None"
           THEN RaiseInCreate(p, enc.exc)
           ELSE IF \E r \in SelectByCode(View(p), enc.value) : r.id # url_id
           THEN RaiseInCreate(p, "IntegrityError")
           ELSE /\ txn' = [txn EXCEPT ![p].urls =
                       {IF r.id = url_id THEN [r EXCEPT !.code = enc.value] ELSE r :
                           r \in txn[p].urls}]
                /\ local' = [local EXCEPT ![p].code = enc.value]
                /\ pc' = [pc EXCEPT ![p] = "create_commit"]
                /\ UNCHANGED <<prior, urls, seq, writer, req, resp, returned, ops>>

\* The with block ends: Connection.__exit__ commits, create returns the
\* ShortURL (line 67) and, for a request, shorten answers 201.
Commit(p) ==
    /\ pc[p] = "create_commit"
    /\ urls' = txn[p].urls
    /\ seq' = txn[p].seq
    /\ txn' = [txn EXCEPT ![p] = NoTxn]
    /\ writer' = NoProc
    /\ returned' = Append(returned,
           [id |-> local[p].url_id, original_url |-> local[p].original_url,
            code |-> local[p].code, via |-> local[p].via, before |-> local[p].before])
    /\ resp' = [resp EXCEPT ![p] =
           IF local[p].via = "http"
           THEN Result("json", 201, LongZero, local[p].original_url, local[p].code,
                       BASE_URL \o <<"/">> \o local[p].code, "")
           ELSE Result("ShortURL", 0, local[p].url_id, local[p].original_url,
                       local[p].code, <<>>, "")]
    /\ pc' = [pc EXCEPT ![p] = "done"]
    /\ UNCHANGED <<prior, req, local, ops>>

\* The storage engine fails a statement of create (lock timeout, full or
\* failing disk): sqlite3.OperationalError is raised at that statement.
InsertFails(p) ==
    /\ pc[p] = "create_insert"
    /\ RaiseInCreate(p, "OperationalError")

UpdateFails(p) ==
    /\ pc[p] = "create_update"
    /\ RaiseInCreate(p, "OperationalError")

CommitFails(p) ==
    /\ pc[p] = "create_commit"
    /\ RaiseInCreate(p, "OperationalError")

\* fetch_by_code without the "if row is None" of lines 75-76: building the
\* ShortURL from no row raises TypeError.
FetchByCodeNoNoneCheck(p, via, code) ==
    /\ LET rows == SelectByCode(View(p), code)
       IN  IF rows = {}
           THEN resp' = [resp EXCEPT ![p] =
                    Raised(IF via = "http" THEN 500 ELSE 0, "TypeError")]
           ELSE \E row \in rows :
                    resp' = [resp EXCEPT ![p] =
                        IF via = "http"
                        THEN Result("redirect", 302, LongZero, row.original_url, <<>>, <<>>, "")
                        ELSE Result("ShortURL", 0, row.id, row.original_url, row.code, <<>>, "")]
    /\ local' = [local EXCEPT ![p] = [NoLocal EXCEPT !.op = "fetch", !.via = via,
                     !.code = code, !.before = IdsReturned, !.during = writer]]
    /\ pc' = [pc EXCEPT ![p] = "done"]
    /\ ops' = ops + 1
    /\ UNCHANGED <<prior, urls, seq, writer, txn, returned>>

\* fetch_by_code(code), lines 70-77, on a connection of its own: one
\* SELECT, which reads the committed rows, and for a request the answer of
\* lines 123-125.
fetch_by_code(p, via, code) ==
    /\ LET rows == SelectByCode(View(p), code)
           http == via = "http"
       IN  IF rows = {}
           THEN resp' = [resp EXCEPT ![p] =
                    IF http
                    THEN Result("json", 404, LongZero, "", <<>>, <<>>, "error: not found")
                    ELSE Result("None", 0, LongZero, "", <<>>, <<>>, "")]
           ELSE \E row \in rows :
                    resp' = [resp EXCEPT ![p] =
                        IF http
                        THEN Result("redirect", 302, LongZero, row.original_url, <<>>, <<>>, "")
                        ELSE Result("ShortURL", 0, row.id, row.original_url, row.code, <<>>, "")]
    /\ local' = [local EXCEPT ![p] = [NoLocal EXCEPT !.op = "fetch", !.via = via,
                     !.code = code, !.before = IdsReturned, !.during = writer]]
    /\ pc' = [pc EXCEPT ![p] = "done"]
    /\ ops' = ops + 1
    /\ UNCHANGED <<prior, urls, seq, writer, txn, returned>>

\* repository.fetch_by_code(code) called by a client of the class.
CallFetch(p, code) ==
    /\ CanStart(p)
    /\ fetch_by_code(p, "direct", code)
    /\ UNCHANGED req

\* encode_base62(number) called by a client of the module.
CallEncode(p, number) ==
    /\ CanStart(p)
    /\ LET enc == encode_base62(number)
       IN  resp' = [resp EXCEPT ![p] =
               IF enc.exc = "None"
               THEN Result("str", 0, LongZero, "", enc.value, <<>>, "")
               ELSE Raised(0, enc.exc)]
    /\ local' = [local EXCEPT ![p] = [NoLocal EXCEPT !.op = "encode", !.via = "direct",
                     !.number = number]]
    /\ pc' = [pc EXCEPT ![p] = "done"]
    /\ ops' = ops + 1
    /\ UNCHANGED <<prior, urls, seq, writer, txn, req, returned>>

\* ------------------------------------------------------ Flask handlers
Request(method, path, body) == [method |-> method, path |-> path, body |-> body]

\* Python's truth value of a JSON value.
Truthy(j) ==
    CASE j.type = "object" -> j.url # JAbsent
      [] j.type = "array"  -> j.v # "[]"
      [] j.type = "int"    -> j.v # "0"
      [] j.type = "str"    -> j.v # ""
      [] OTHER             -> FALSE

\* health view, lines 97-99.
health(p, method, path) ==
    /\ CanStart(p)
    /\ Route(method, path) = "health"
    /\ req' = [req EXCEPT ![p] = Request(method, path, JNone)]
    /\ local' = [local EXCEPT ![p] = [NoLocal EXCEPT !.op = "health", !.via = "http",
                     !.before = IdsReturned]]
    /\ resp' = [resp EXCEPT ![p] =
                   Result("json", 200, LongZero, "", <<>>, <<>>, "status: ok")]
    /\ pc' = [pc EXCEPT ![p] = "done"]
    /\ ops' = ops + 1
    /\ UNCHANGED <<prior, urls, seq, writer, txn, returned>>

\* No rule of the URL map takes the request: Flask answers 404 or 405.
NoRoute(p, method, path) ==
    /\ CanStart(p)
    /\ Route(method, path) \in {"404", "405"}
    /\ req' = [req EXCEPT ![p] = Request(method, path, JNone)]
    /\ local' = [local EXCEPT ![p] = [NoLocal EXCEPT !.op = "abort", !.via = "http"]]
    /\ resp' = [resp EXCEPT ![p] =
                   Result("abort", IF Route(method, path) = "404" THEN 404 ELSE 405,
                          LongZero, "", <<>>, <<>>, "")]
    /\ pc' = [pc EXCEPT ![p] = "done"]
    /\ ops' = ops + 1
    /\ UNCHANGED <<prior, urls, seq, writer, txn, returned>>

\* shorten view, lines 101-108: up to the call of repository.create.
shorten(p, method, path, body) ==
    /\ CanStart(p)
    /\ Route(method, path) = "shorten"
    /\ req' = [req EXCEPT ![p] = Request(method, path, body)]
    /\ LET payload == IF Truthy(body) THEN body ELSE JObject(JAbsent)
           original_url == payload.url
       IN  IF payload.type # "object"
           THEN \* payload.get: a list has no attribute get
                /\ resp' = [resp EXCEPT ![p] = Raised(500, "AttributeError")]
                /\ local' = [local EXCEPT ![p] =
                                [NoLocal EXCEPT !.op = "shorten", !.via = "http"]]
                /\ pc' = [pc EXCEPT ![p] = "done"]
                /\ ops' = ops + 1
                /\ UNCHANGED <<prior, urls, seq, writer, txn, returned>>
           ELSE IF ~Truthy(original_url) \/ original_url.type # "str"
           THEN /\ resp' = [resp EXCEPT ![p] =
                       Result("json", 400, LongZero, "", <<>>, <<>>, "error: url is required")]
                /\ local' = [local EXCEPT ![p] =
                                [NoLocal EXCEPT !.op = "shorten", !.via = "http"]]
                /\ pc' = [pc EXCEPT ![p] = "done"]
                /\ ops' = ops + 1
                /\ UNCHANGED <<prior, urls, seq, writer, txn, returned>>
           ELSE StartCreate(p, "http", original_url.v)

\* redirect_to_url view, lines 120-125.
redirect_to_url(p, method, path) ==
    /\ CanStart(p)
    /\ Route(method, path) = "redirect_to_url"
    /\ req' = [req EXCEPT ![p] = Request(method, path, JNone)]
    /\ fetch_by_code(p, "http", path)

\* The caller has its result; the process takes the next operation.
Finish(p) ==
    /\ pc[p] = "done"
    /\ pc' = [pc EXCEPT ![p] = "idle"]
    /\ req' = [req EXCEPT ![p] = NoReq]
    /\ local' = [local EXCEPT ![p] = NoLocal]
    /\ resp' = [resp EXCEPT ![p] = NoResp]
    /\ UNCHANGED <<prior, urls, seq, writer, txn, returned, ops>>

Next ==
    \/ \E p \in Procs, u \in Urls : CallCreate(p, u)
    \/ \E p \in Procs, c \in FetchCodes : CallFetch(p, c)
    \/ \E p \in Procs, n \in EncodeArgs : CallEncode(p, n)
    \/ \E p \in Procs, path \in GetPaths : health(p, "GET", path)
    \/ \E p \in Procs, path \in GetPaths : redirect_to_url(p, "GET", path)
    \/ \E p \in Procs, b \in Bodies : shorten(p, "POST", ShortenPath, b)
    \/ \E p \in Procs, r \in {<<"GET", RootPath>>, <<"POST", HealthPath>>} :
           NoRoute(p, r[1], r[2])
    \/ \E p \in Procs : Insert(p)
    \/ \E p \in Procs : Update(p)
    \/ \E p \in Procs : Commit(p)
    \/ \E p \in Procs : InsertFails(p)
    \/ \E p \in Procs : UpdateFails(p)
    \/ \E p \in Procs : CommitFails(p)
    \/ \E p \in Procs : Finish(p)

Spec == Init /\ [][Next]_vars

\* ------------------------------------ the Encoder on its own (a pure function)
\* The arguments: every integer of -5..MaxEncodeArg, the values on either
\* side of a change of length (62, 62^2, 62^3), 10^9, and those around the
\* id of "health".
EncoderDomain ==
    {Long(n) : n \in (-5)..MaxEncodeArg}
    \cup {Long(n) : n \in {3843, 3844, 3845, 238327, 238328, 1000000000, 2147483647}}
    \cup {LongPred(HealthId), HealthId, LongSucc(HealthId)}

InitEnc ==
    /\ prior = LongZero
    /\ urls = {}
    /\ seq = prior
    /\ writer = NoProc
    /\ txn = [p \in Procs |-> NoTxn]
    /\ pc = [p \in Procs |-> "idle"]
    /\ req = [p \in Procs |-> NoReq]
    /\ local = [p \in Procs |-> NoLocal]
    /\ resp = [p \in Procs |-> NoResp]
    /\ returned = <<>>
    /\ ops = 0

NextEnc ==
    \/ \E n \in EncoderDomain : CallEncode(1, n)
    \/ Finish(1)

SpecEnc == InitEnc /\ [][NextEnc]_vars

\* ------------------------------------------------------------- claims
Done(p, op) == pc[p] = "done" /\ local[p].op = op

Returned == {returned[i] : i \in 1..Len(returned)}

RowOf(r) == ShortURL(r.id, r.original_url, r.code)

\* The code was issued by no create that has completed, in this run or an
\* earlier one.
NeverIssued(code) == PriorRows(code) = {} /\ \A r \in Returned : r.code # code

NotFound(via) ==
    IF via = "http"
    THEN Result("json", 404, LongZero, "", <<>>, <<>>, "error: not found")
    ELSE Result("None", 0, LongZero, "", <<>>, <<>>, "")

\* C1: in every interleaving of creates and look-ups no committed row, and
\* so no look-up, shows an empty code: a look-up of "" finds nothing and a
\* record a look-up returns has a non-empty code, also while another
\* connection is between its INSERT and its UPDATE.
C1_EmptyCodeNeverVisible ==
    /\ SelectByCode(urls, <<>>) = {}
    /\ \A p \in Procs :
           Done(p, "fetch") =>
               /\ local[p].code = <<>> => resp[p] = NotFound(local[p].via)
               /\ resp[p].kind = "ShortURL" => resp[p].code # <<>>

\* A look-up of "" has answered while another connection held the row with
\* the placeholder code in its open transaction.
C1_Witness ==
    \E p \in Procs, q \in Procs :
        /\ Done(p, "fetch") /\ local[p].code = <<>> /\ local[p].during = q
        /\ pc[q] = "create_update"
        /\ \E r \in txn[q].urls : r.code = <<>>

\* C2: any two completed creates returned distinct ids and distinct codes,
\* and a create that began after another had returned got the greater id.
C2_DistinctIncreasingIds ==
    /\ \A i \in 1..Len(returned), j \in 1..Len(returned) :
           i # j => returned[i].id # returned[j].id /\ returned[i].code # returned[j].code
    /\ \A r \in Returned : \A b \in r.before : LongLt(b, r.id)

\* Two creates have completed, the second having begun before the first
\* returned.
C2_Witness ==
    /\ Len(returned) = 2
    /\ returned[1].id \notin returned[2].before

\* C3: every committed row has id >= 1 and code = encode_base62(id), codes
\* are non-empty and unique among the rows, and every ShortURL a create
\* returned has code = encode_base62(id).
C3_CodeIsEncodedId ==
    /\ \A r \in urls :
           /\ IsPositive(r.id)
           /\ encode_base62(r.id) = [exc |-> "None", value |-> r.code]
           /\ r.code # <<>>
    /\ \A r1 \in urls, r2 \in urls : r1.code = r2.code => r1 = r2
    /\ \A r \in Returned :
           IsPositive(r.id) /\ encode_base62(r.id) = [exc |-> "None", value |-> r.code]

\* Two creates have committed their rows.
C3_Witness == Cardinality(urls) = 2 /\ Len(returned) = 2

\* C4: the mapping a create returned stays: the table holds exactly that
\* record for its code, and a look-up of the code issued after the create
\* returned gives the same id, code and original_url.
C4_MappingPersists ==
    /\ \A r \in Returned : SelectByCode(urls, r.code) = {RowOf(r)}
    /\ \A p \in Procs : \A r \in Returned :
           (Done(p, "fetch") /\ r.id \in local[p].before /\ r.code = local[p].code) =>
               IF local[p].via = "http"
               THEN resp[p] = Result("redirect", 302, LongZero, r.original_url, <<>>, <<>>, "")
               ELSE resp[p] = Result("ShortURL", 0, r.id, r.original_url, r.code, <<>>, "")

\* A look-up of a code has answered after the create that issued it returned.
C4_Witness ==
    \E p \in Procs : \E r \in Returned :
        /\ Done(p, "fetch") /\ local[p].via = "direct"
        /\ r.id \in local[p].before /\ r.code = local[p].code
        /\ resp[p].kind = "ShortURL"

\* C5: a look-up of a code no completed create has issued returns None (it
\* does not raise), changes neither the rows, the counter nor any
\* transaction, and redirect_to_url answers it 404 "not found".
C5_UnknownCodeNotFound ==
    [][\A p \in Procs :
           (pc[p] = "idle" /\ pc'[p] = "done" /\ local'[p].op = "fetch"
                /\ NeverIssued(local'[p].code)) =>
               /\ resp'[p] = NotFound(local'[p].via)
               /\ urls' = urls /\ seq' = seq /\ txn' = txn /\ writer' = writer]_vars

\* GET /<code> for a code never issued has been answered 404 on a table
\* that holds a record.
C5_Witness ==
    \E p \in Procs :
        /\ Done(p, "fetch") /\ local[p].via = "http"
        /\ NeverIssued(local[p].code)
        /\ resp[p].status = 404
        /\ urls # {}

\* C6: when create has raised, its transaction is closed and the lock is
\* released, and the committed rows are exactly the records of the creates
\* that completed: nothing of the failed create, no row with an empty code.
C6_FailedCreateLeavesNothing ==
    \A p \in Procs :
        (Done(p, "create") /\ resp[p].kind = "raise") =>
            /\ txn[p] = NoTxn
            /\ writer # p
            /\ urls = {RowOf(r) : r \in Returned}
            /\ SelectByCode(urls, <<>>) = {}

\* A create has failed after its INSERT, on a table that holds a record.
C6_Witness ==
    \E p \in Procs :
        /\ Done(p, "create") /\ resp[p].kind = "raise"
        /\ local[p].has_id
        /\ Len(returned) = 1

\* C7: for n >= 1 encode_base62(n) returns a non-empty string over the 62
\* symbols that does not begin with "0" and that an independent decoder,
\* reading the first symbol as the most significant, takes back to n.
C7_EncodeRoundTrip ==
    \A p \in Procs :
        (Done(p, "encode") /\ IsPositive(local[p].number)) =>
            /\ resp[p].kind = "str"
            /\ IsBase62(resp[p].code)
            /\ resp[p].code[1] # "0"
            /\ DecodeBase62(resp[p].code) = local[p].number

\* encode_base62(10^9) has returned.
C7_Witness ==
    \E p \in Procs :
        /\ Done(p, "encode") /\ local[p].number = Long(1000000000)
        /\ resp[p].kind = "str"

\* C8: for n <= 0 encode_base62(n) raises ValueError and returns nothing,
\* and the id create hands to the encoder is >= 1, so that no create ends
\* in ValueError.
C8_NonPositiveRejected ==
    /\ \A p \in Procs :
           (Done(p, "encode") /\ ~IsPositive(local[p].number)) =>
               resp[p] = Raised(0, "ValueError")
    /\ \A p \in Procs :
           local[p].has_id => IsPositive(local[p].url_id)
    /\ \A p \in Procs :
           Done(p, "create") => resp[p].body # "ValueError"

\* encode_base62(0) has raised.
C8_Witness ==
    \E p \in Procs :
        /\ Done(p, "encode") /\ local[p].number = LongZero
        /\ resp[p].kind = "raise"

\* The body holds a url that is a non-empty string.
HasUrlString(body) ==
    body.type = "object" /\ body.url.type = "str" /\ body.url.v # ""

\* C9: POST /shorten with a body that has no url, a url that is no string
\* or an empty url is answered 400 "url is required" at once, with the
\* rows, the counter and every transaction as they were.
C9_InvalidBodyIs400 ==
    [][\A p \in Procs :
           (pc[p] = "idle" /\ req'[p].method = "POST" /\ req'[p].path = ShortenPath
                /\ ~HasUrlString(req'[p].body)) =>
               /\ pc'[p] = "done"
               /\ resp'[p] = Result("json", 400, LongZero, "", <<>>, <<>>,
                                    "error: url is required")
               /\ urls' = urls /\ seq' = seq /\ txn' = txn /\ writer' = writer]_vars

\* C10: GET /c for a code c that POST /shorten returned in a 201 before the
\* request is answered 302 with the original_url stored for c.
C10_IssuedCodeRedirects ==
    \A p \in Procs : \A r \in Returned :
        (pc[p] = "done" /\ req[p].method = "GET" /\ req[p].path = r.code
             /\ r.via = "http" /\ r.id \in local[p].before) =>
            resp[p] = Result("redirect", 302, LongZero, r.original_url, <<>>, <<>>, "")

====
